---- MODULE Spec2Model ----
(***************************************************************************)
(* Model of the Baxter cashier: scripts/baxter_cashier_manipulation/src/   *)
(* cashier.py (Banknote, BanknotesOnTable, Cashier).                       *)
(*                                                                         *)
(* The specifications share the definitions:                               *)
(*   Spec        the program: the main thread of __main__ looping over     *)
(*               interact_with_customer, interleaved with the animation    *)
(*               threads run_nonblocking starts;                           *)
(*   SelectSpec  one pass over lines 247-263 of interact_with_customer     *)
(*               (staleness check and choice of the arm) from every pair   *)
(*               of sensed poses, clock reading and planner answers;       *)
(*   InvSpec     BanknotesOnTable alone, under every order of              *)
(*               get_next_available_banknote and                           *)
(*               reset_availability_for_all_banknotes;                     *)
(*   FaultSpec   Spec with a planner whose blocking calls can raise;       *)
(*   OutdatedSpec  pose_is_outdated alone, on every pose and clock time;   *)
(*   DetectSpec  BanknoteRecogniser.detect (banknote_recogniser.py) alone, *)
(*               on every sequence of marker observations.                 *)
(*                                                                         *)
(* A Python name that can hold None is a record with a kind field.         *)
(***************************************************************************)
EXTENDS Integers, Sequences, FiniteSets, TLC

\* ------------------------------------------------------------------ bounds
\* Largest |amount_due| a session is entered with.
MaxDue == 3
\* Largest number of REMAINING banknotes typed in at calibration, per side.
MaxRemaining == 1
\* Latest clock reading (seconds) a staleness check is tried with.
MaxTime == 4
\* Largest number of animation threads alive at once.
MaxThreads == 2
\* Largest number of polls that fit in the recogniser's timeout window.
MaxPolls == 3

\* ------------------------------------------------------- program constants
\* pose_is_outdated: (time.time() - pose.created) > 3
MaxPoseAge == 3
\* give_money_to_customer: money_to_give_back = 1
money_to_give_back == 1
\* take_money_from_customer: if banknote_value != -1
NotRecognised == -1

Sides == {"left", "right"}

\* The values the recognise_banknote service answers with (detect returns 1,
\* RecogniseBanknoteResponse(5) or RecogniseBanknoteResponse(-1)).
BanknoteAmounts == {1, 5, NotRecognised}

\* The animation's display steps, in the order of funcs.
funcs == << "looking_eyes.png", "looking_right_eyes.png", "looking_left_eyes.png", "looking_right_eyes.png", "looking_left_eyes.png" >>

VARIABLES
    pc,                 \* position of the main thread
    exc,                \* the uncaught exception that ended the main thread, or "none"
    printed,            \* the line the main thread's last step printed, or ""
    amount_due,         \* Cashier.amount_due
    customer_last_pose, \* Cashier.customer_last_pose: None or the tuple (pose, arm)
    banknotes_table_left,   \* Cashier.banknotes_table_left.banknotes
    banknotes_table_right,  \* Cashier.banknotes_table_right.banknotes
    banknote_recognition_task_completed,
    left_pose, right_pose,  \* the poses get_pose_from_space returned (SelectSpec)
    now,                \* time.time() as pose_is_outdated reads it (SelectSpec)
    reach,              \* the planner's answers to is_pose_reachable_by_arm,
                        \* by sensed hand and arm (SelectSpec)
    outdated,           \* the last call of pose_is_outdated: the hand whose pose
                        \* it was given and what it returned (OutdatedSpec)
    action,             \* what the iteration did: kind, pose, arm
    pose, arm,          \* take_money_from_customer's arguments;
                        \* give_money_to_customer's customer_hand_pose, baxter_arm
    banknote_value,     \* local of take_money_from_customer
    banknote,           \* local of pick_banknote_from_table
    threads,            \* the animation threads alive, oldest first: the func
                        \* each is at (k), whether it is about to read the flag
                        \* or to call the func (phase), and whether it is the
                        \* thread of the latest run_nonblocking call (latest)
    screen,             \* the image last published on /robot/xdisplay
    planner,            \* what the planner was last told: active_hand, gripper,
                        \* where the arm was sent (at), and the pose and arm of
                        \* the last move_to_position (goal, limb)
    returned,           \* per side, the slots handed out since the last reset
    session_due,        \* amount_due when interact_with_customer was entered
    net,                \* recognised values collected minus units dispensed, this session
    overpaid,           \* by how much the last collect's value exceeded amount_due
                        \* (0 when it did not, and once the loop is left)
    dispensed,          \* calls of give_money_to_customer completed since then
    markers,            \* BanknoteRecogniser.detect: per poll of the window, whether
                        \* the lookup of ar_marker_5 and of ar_marker_1 succeeds
    poll,               \* the poll detect is at
    found,              \* detect's local found
    detected            \* what detect returned (DetectSpec)

vars == << pc, exc, printed, amount_due, customer_last_pose, banknotes_table_left, banknotes_table_right, banknote_recognition_task_completed, left_pose, right_pose, now, reach, outdated, action, pose, arm, banknote_value, banknote, threads, screen, planner, returned, session_due, net, overpaid, dispensed, markers, poll, found, detected >>

\* --------------------------------------------------------- Python values
PyNone == [kind |-> "None", val |-> 0]
Unbound == [kind |-> "unbound", val |-> 0]
PyInt(v) == [kind |-> "int", val |-> v]
Slot(i) == [kind |-> "banknote", val |-> i]

NoHandoff == [kind |-> "None", pose |-> "none", arm |-> "none"]
Handoff(p, a) == [kind |-> "tuple", pose |-> p, arm |-> a]

\* --------------------------------------------------------------- inventory
\* Banknote(pose): the pose is its x offset from the calibrated pose, in
\* steps of static_x_to_be_added (10 cm).
Banknote(x) == [pose |-> x, is_available |-> TRUE]

\* _calculate_pose_of_remaining_poses: each further banknote is a deep copy
\* of the last one with transformation_x moved on by one step.
RECURSIVE _calculate_pose_of_remaining_poses(_, _)
_calculate_pose_of_remaining_poses(banknotes, n) ==
    IF n = 0 THEN banknotes
    ELSE LET new_pose == [banknotes[Len(banknotes)] EXCEPT !.pose = @ + 1]
         IN  _calculate_pose_of_remaining_poses(Append(banknotes, new_pose), n - 1)

BanknotesOnTable(num_of_remaining_banknotes) ==
    _calculate_pose_of_remaining_poses(<< Banknote(0) >>, num_of_remaining_banknotes)

\* Mutant: the reset leaves the flags as they are.
reset_availability_skipped(banknotes) == banknotes

reset_availability_for_all_banknotes(banknotes) ==
    [i \in DOMAIN banknotes |-> [banknotes[i] EXCEPT !.is_available = TRUE]]

\* What get_next_available_banknote returns: the first banknote of the list
\* whose flag is set, or None.
get_next_available_banknote(banknotes) ==
    IF \E i \in DOMAIN banknotes : banknotes[i].is_available
    THEN Slot(CHOOSE i \in DOMAIN banknotes :
                 /\ banknotes[i].is_available
                 /\ \A j \in 1..(i - 1) : ~banknotes[j].is_available)
    ELSE PyNone

\* Mutant: the returned banknote's flag is left set.
AfterTake_unmarked(banknotes) == banknotes

\* The list get_next_available_banknote leaves: the returned banknote's flag
\* is cleared.
AfterTake(banknotes) ==
    LET b == get_next_available_banknote(banknotes)
    IN  IF b.kind = "None" THEN banknotes
        ELSE [banknotes EXCEPT ![b.val].is_available = FALSE]

\* ------------------------------------------------------------------- poses
\* The BaxterPose objects get_pose_from_space can build for a hand when the
\* clock reads at most t.
Poses(hand, t) == [hand : {hand}, empty : BOOLEAN, created : 0..t]

NoPose == [hand |-> "none", empty |-> TRUE, created |-> 0]

\* The planner's possible answers about the two sensed poses.
Answers == [Sides -> [Sides -> BOOLEAN]]
NoAnswers == [h \in Sides |-> [a \in Sides |-> FALSE]]

\* pose_is_outdated has not been called.
NotCalled == [hand |-> "none", result |-> FALSE]

\* Mutant: the age limit taken to be inclusive.
pose_is_outdated_inclusive(p, t) == (t - p.created) >= MaxPoseAge

\* Mutant: the subtraction the wrong way round.
pose_is_outdated_reversed(p, t) == (p.created - t) > MaxPoseAge

\* interact_with_customer.pose_is_outdated, at clock reading t.
pose_is_outdated(p, t) == (t - p.created) > MaxPoseAge

\* Mutant: the planner is asked about an empty pose too.
pose_is_reachable_unchecked(p, side, answers) == answers[p.hand][side]

\* Cashier.pose_is_reachable: the planner is asked only about a pose that is
\* not empty.
pose_is_reachable(p, side, answers) ==
    IF ~p.empty THEN answers[p.hand][side] ELSE FALSE

NoAction == [kind |-> "none", pose |-> "none", arm |-> "none"]

\* Lines 247-263: what one sensing iteration does with the poses it got.
\* "Skip" is the continue of line 249, "Wait" the else of line 262.
SelectAction(lp, rp, t, answers) ==
    IF pose_is_outdated(lp, t) /\ pose_is_outdated(rp, t)
    THEN [kind |-> "Skip", pose |-> "none", arm |-> "none"]
    ELSE IF pose_is_reachable(lp, "right", answers)
    THEN [kind |-> "CollectWith", pose |-> lp.hand, arm |-> "right"]
    ELSE IF pose_is_reachable(rp, "left", answers)
    THEN [kind |-> "CollectWith", pose |-> rp.hand, arm |-> "left"]
    ELSE [kind |-> "Wait", pose |-> "none", arm |-> "none"]

\* -------------------------------------------------------------------- init
\* The state Cashier.__init__ leaves: both sides calibrated, nothing cached.
\* amount_due is whatever the caller set before the session (line 147 sets 3).
Init ==
    /\ pc = "main"
    /\ exc = "none"
    /\ printed = ""
    /\ amount_due \in (0 - MaxDue)..MaxDue
    /\ customer_last_pose = NoHandoff
    /\ banknotes_table_left = BanknotesOnTable(MaxRemaining)
    /\ banknotes_table_right = BanknotesOnTable(MaxRemaining)
    /\ banknote_recognition_task_completed = FALSE
    /\ left_pose = NoPose
    /\ right_pose = NoPose
    /\ now = 0
    /\ reach = NoAnswers
    /\ outdated = NotCalled
    /\ action = NoAction
    /\ pose = "none"
    /\ arm = "none"
    /\ banknote_value = Unbound
    /\ banknote = Unbound
    /\ threads = << >>
    /\ screen = "none"
    /\ planner = [active_hand |-> "right", gripper |-> "closed", at |-> "neutral", goal |-> "none", limb |-> "none"]
    /\ returned = [s \in Sides |-> {}]
    /\ session_due = amount_due
    /\ net = 0
    /\ overpaid = 0
    /\ dispensed = 0
    /\ markers = << >>
    /\ poll = 1
    /\ found = NotRecognised
    /\ detected = Unbound

\* Groups of variables an action leaves alone.
ledger == << amount_due, customer_last_pose, session_due, net, overpaid, dispensed >>
tables == << banknotes_table_left, banknotes_table_right, returned >>
sensed == << left_pose, right_pose, now, reach, outdated >>
locals == << pose, arm, banknote_value, banknote >>
animation == << banknote_recognition_task_completed, threads >>
recogniser == << markers, poll, found, detected >>

\* ------------------------------------------------- interact_with_customer
\* Mutant: the loop runs only while the customer owes money.
LoopCondition_positive(a) == a > 0

\* Line 236: while self.amount_due != 0.
LoopCondition(a) == a # 0

\* Mutant: an off-by-one in the test for owing the customer.
OwesCustomer_below_minus_one(a) == a < 0 - 1

\* Line 240: if self.amount_due < 0.
OwesCustomer(a) == a < 0

\* __main__, lines 490-491, entering interact_with_customer, lines 228-233:
\* normal eyes, then both sides' banknotes are flagged available again.
Enter ==
    /\ pc = "main"
    /\ pc' = "loop"
    /\ screen' = "normal_eyes.png"
    /\ banknotes_table_left' = reset_availability_for_all_banknotes(banknotes_table_left)
    /\ banknotes_table_right' = reset_availability_for_all_banknotes(banknotes_table_right)
    /\ returned' = [s \in Sides |-> {}]
    /\ session_due' = amount_due
    /\ net' = 0
    /\ overpaid' = 0
    /\ dispensed' = 0
    /\ printed' = ""
    /\ action' = NoAction
    /\ UNCHANGED << exc, amount_due, customer_last_pose, sensed, recogniser, locals, animation, planner >>

\* Lines 236-242: the loop test and the branch on the sign of amount_due.
\* A negative balance calls give_money_to_customer before anything is sensed.
WhileTest ==
    /\ pc = "loop"
    /\ IF ~LoopCondition(amount_due)
       THEN pc' = "done" /\ action' = NoAction /\ overpaid' = 0 /\ dispensed' = 0
       ELSE /\ IF OwesCustomer(amount_due)
               THEN pc' = "give" /\ action' = [kind |-> "Dispense", pose |-> "none", arm |-> "none"]
               ELSE pc' = "sense" /\ action' = NoAction
            /\ UNCHANGED << overpaid, dispensed >>
    /\ printed' = ""
    /\ UNCHANGED << exc, amount_due, customer_last_pose, session_due, net, tables, sensed, recogniser, locals, animation, screen, planner >>

\* Lines 249-263 once the choice a is made: continue, the call of
\* take_money_from_customer with the chosen pose and arm, or the else
\* branch's print.
Perform(a) ==
    /\ action' = a
    /\ IF a.kind = "CollectWith"
       THEN pc' = "take_move" /\ pose' = a.pose /\ arm' = a.arm
       ELSE pc' = "loop" /\ UNCHANGED << pose, arm >>
    /\ printed' = IF a.kind = "Wait" THEN "Wasn't able to move hand to goal position" ELSE ""
    /\ UNCHANGED << exc, ledger, tables, sensed, recogniser, banknote_value, banknote, animation, screen, planner >>

\* Every choice lines 247-263 can make: over the poses the service can
\* answer with, the clock readings and the planner's answers.
Decisions ==
    UNION { { SelectAction(lp, rp, t, answers) : lp \in Poses("left", t), rp \in Poses("right", t), answers \in Answers } : t \in 0..MaxTime }

\* get_pose_from_space, lines 455-483, when a get_user_pose call raises
\* ServiceException: the except clause prints, and line 474 or 479 then reads
\* a name that was never bound.
GetPoseFailed ==
    /\ pc' = "crashed"
    /\ exc' = "UnboundLocalError"
    /\ printed' = "Service call failed: get_user_pose"
    /\ UNCHANGED << ledger, tables, sensed, recogniser, action, locals, animation, screen, planner >>

\* Lines 245-263: one sensing iteration. The service answers with a pose for
\* each hand, or fails.
Sense ==
    /\ pc = "sense"
    /\ \/ \E a \in Decisions : Perform(a)
       \/ GetPoseFailed

\* ------------------------------------------------ take_money_from_customer
\* Lines 282-290: reach for the customer's hand, open and close the gripper,
\* bring the hand to the head camera.
TakeMove ==
    /\ pc = "take_move"
    /\ pc' = "start_anim"
    /\ planner' = [planner EXCEPT !.gripper = "closed", !.at = "camera", !.goal = pose, !.limb = arm]
    /\ printed' = ""
    /\ UNCHANGED << exc, ledger, tables, sensed, recogniser, action, locals, animation, screen >>

\* Line 294, run_nonblocking (lines 352-353): a new thread running
\* make_eyes_animated_reading_banknote is started.
StartAnimation ==
    /\ pc = "start_anim"
    /\ Len(threads) < MaxThreads
    /\ pc' = "recog_begin"
    /\ threads' = Append([j \in DOMAIN threads |-> [threads[j] EXCEPT !.latest = FALSE]],
                          [k |-> 1, phase |-> "check", latest |-> TRUE])
    /\ printed' = ""
    /\ UNCHANGED << exc, ledger, tables, sensed, recogniser, action, locals, banknote_recognition_task_completed, screen, planner >>

\* get_banknote_value, line 324: the flag is cleared, then the call blocks.
RecogBegin ==
    /\ pc = "recog_begin"
    /\ pc' = "recog_call"
    /\ banknote_recognition_task_completed' = FALSE
    /\ printed' = ""
    /\ UNCHANGED << exc, ledger, tables, sensed, recogniser, action, locals, threads, screen, planner >>

\* get_banknote_value, lines 335-342: the service answers with an amount,
\* or the call raises ServiceException and None is returned; either way the
\* flag is set.
RecogReturn ==
    /\ pc = "recog_call"
    /\ pc' = "take_branch"
    /\ banknote_recognition_task_completed' = TRUE
    /\ \/ \E v \in BanknoteAmounts : banknote_value' = PyInt(v) /\ printed' = ""
       \/ banknote_value' = PyNone /\ printed' = "Service call failed: recognise_banknote"
    /\ UNCHANGED << exc, ledger, tables, sensed, recogniser, action, pose, arm, banknote, threads, screen, planner >>

\* Mutant: the test of the sentinel left out.
IsRecognised_always(v) == TRUE

\* Mutant: the sentinel taken to be 0.
IsRecognised_nonzero(v) == ~(v.kind = "int" /\ v.val = 0)

\* Line 299: banknote_value != -1. None is not equal to -1.
IsRecognised(v) == ~(v.kind = "int" /\ v.val = NotRecognised)

\* Lines 299-305 and 312-313: the image for the outcome is shown.
TakeBranch ==
    /\ pc = "take_branch"
    /\ IF IsRecognised(banknote_value)
       THEN /\ screen' = IF banknote_value.kind = "int" /\ banknote_value.val = 5
                         THEN "five_bill_recognised.png" ELSE "one_bill_recognised.png"
            /\ pc' = "take_update"
       ELSE /\ screen' = "unable_to_recognise.png"
            /\ pc' = "take_end"
    /\ printed' = ""
    /\ UNCHANGED << exc, ledger, tables, sensed, recogniser, action, locals, animation, planner >>

\* Lines 308-311: int(banknote_value) raises TypeError on None; otherwise the
\* value is subtracted, the handoff cached and the banknote left on the table.
TakeUpdate ==
    /\ pc = "take_update"
    /\ IF banknote_value.kind = "int"
       THEN /\ amount_due' = amount_due - banknote_value.val
            /\ net' = net + banknote_value.val
            /\ customer_last_pose' = Handoff(pose, arm)
            /\ overpaid' = IF banknote_value.val > amount_due THEN banknote_value.val - amount_due ELSE 0
            /\ dispensed' = 0
            /\ planner' = [planner EXCEPT !.gripper = "open", !.at = "table"]
            /\ pc' = "take_end"
            /\ exc' = exc
       ELSE /\ pc' = "crashed"
            /\ exc' = "TypeError"
            /\ UNCHANGED << amount_due, net, customer_last_pose, overpaid, dispensed, planner >>
    /\ printed' = ""
    /\ UNCHANGED << session_due, tables, sensed, recogniser, action, locals, animation, screen >>

\* Lines 315-316: normal eyes, arm back to neutral; the call returns.
TakeEnd ==
    /\ pc = "take_end"
    /\ pc' = "loop"
    /\ screen' = "normal_eyes.png"
    /\ planner' = [planner EXCEPT !.at = "neutral"]
    /\ pose' = "none"
    /\ arm' = "none"
    /\ banknote_value' = Unbound
    /\ printed' = ""
    /\ UNCHANGED << exc, ledger, tables, sensed, recogniser, action, banknote, animation >>

\* -------------------------------------------------- give_money_to_customer
\* Lines 434-435: the cached handoff is unpacked; unpacking None raises
\* TypeError.
GiveUnpack ==
    /\ pc = "give"
    /\ IF customer_last_pose.kind = "tuple"
       THEN /\ pose' = customer_last_pose.pose
            /\ arm' = customer_last_pose.arm
            /\ pc' = "pick"
            /\ exc' = exc
       ELSE /\ pc' = "crashed"
            /\ exc' = "TypeError"
            /\ UNCHANGED << pose, arm >>
    /\ printed' = ""
    /\ UNCHANGED << ledger, tables, sensed, recogniser, action, banknote_value, banknote, animation, screen, planner >>

\* get_next_available_banknote called on one side's table: the banknote it
\* returns, the flag it clears.
TakeFrom(side) ==
    /\ IF side = "left"
       THEN /\ banknote' = get_next_available_banknote(banknotes_table_left)
            /\ banknotes_table_left' = AfterTake(banknotes_table_left)
            /\ UNCHANGED banknotes_table_right
       ELSE /\ banknote' = get_next_available_banknote(banknotes_table_right)
            /\ banknotes_table_right' = AfterTake(banknotes_table_right)
            /\ UNCHANGED banknotes_table_left
    /\ returned' = IF banknote'.kind = "banknote"
                   THEN [returned EXCEPT ![side] = @ \cup {banknote'.val}]
                   ELSE returned

\* Mutant: the tables of the two sides confused.
PickBanknote_other_table ==
    /\ pc = "pick"
    /\ pc' = "pick_move"
    /\ planner' = [planner EXCEPT !.active_hand = arm, !.gripper = "open"]
    /\ TakeFrom(IF arm = "left" THEN "right" ELSE "left")
    /\ printed' = ""
    /\ UNCHANGED << exc, ledger, sensed, recogniser, action, pose, arm, banknote_value, animation, screen >>

\* pick_banknote_from_table, lines 405-412: the arm becomes the active hand,
\* its gripper opens, and the next banknote of the arm's own side is taken.
PickBanknote ==
    /\ pc = "pick"
    /\ pc' = "pick_move"
    /\ planner' = [planner EXCEPT !.active_hand = arm, !.gripper = "open"]
    /\ TakeFrom(arm)
    /\ printed' = ""
    /\ UNCHANGED << exc, ledger, sensed, recogniser, action, pose, arm, banknote_value, animation, screen >>

\* Mutant: the unit is credited as soon as a banknote is picked.
PickMove_credits ==
    /\ pc = "pick_move"
    /\ pc' = "give_move"
    /\ IF banknote.kind = "banknote"
       THEN /\ planner' = [planner EXCEPT !.gripper = "closed", !.at = "neutral", !.goal = "banknote", !.limb = arm]
            /\ printed' = ""
            /\ amount_due' = amount_due + money_to_give_back
            /\ net' = net - money_to_give_back
       ELSE /\ printed' = "No available banknotes on the table..."
            /\ UNCHANGED << planner, amount_due, net >>
    /\ UNCHANGED << exc, customer_last_pose, session_due, overpaid, dispensed, tables, sensed, recogniser, action, locals, animation, screen >>

\* pick_banknote_from_table, lines 415-430: with a banknote, move above it,
\* onto it, close the gripper and go to neutral; without one, only print.
PickMove ==
    /\ pc = "pick_move"
    /\ pc' = "give_move"
    /\ IF banknote.kind = "banknote"
       THEN /\ planner' = [planner EXCEPT !.gripper = "closed", !.at = "neutral", !.goal = "banknote", !.limb = arm]
            /\ printed' = ""
       ELSE /\ printed' = "No available banknotes on the table..."
            /\ UNCHANGED planner
    /\ UNCHANGED << exc, ledger, tables, sensed, recogniser, action, locals, animation, screen >>

\* Lines 441-446: the arm moves to the cached customer pose and the gripper
\* opens.
GiveMove ==
    /\ pc = "give_move"
    /\ pc' = "give_update"
    /\ planner' = [planner EXCEPT !.gripper = "open", !.at = "customer", !.goal = pose, !.limb = arm]
    /\ printed' = ""
    /\ UNCHANGED << exc, ledger, tables, sensed, recogniser, action, locals, animation, screen >>

\* Mutant: the unit is subtracted instead of added.
GiveUpdate_subtracts ==
    /\ pc = "give_update"
    /\ pc' = "loop"
    /\ amount_due' = amount_due - money_to_give_back
    /\ net' = net + money_to_give_back
    /\ dispensed' = dispensed + 1
    /\ planner' = IF amount_due' >= 0 THEN [planner EXCEPT !.at = "neutral"] ELSE planner
    /\ pose' = "none"
    /\ arm' = "none"
    /\ banknote' = Unbound
    /\ printed' = ""
    /\ UNCHANGED << exc, customer_last_pose, session_due, overpaid, tables, sensed, recogniser, action, banknote_value, animation, screen >>

\* Lines 449-453: the unit is added to amount_due; the arm goes to neutral
\* unless the balance is still negative; the call returns.
GiveUpdate ==
    /\ pc = "give_update"
    /\ pc' = "loop"
    /\ amount_due' = amount_due + money_to_give_back
    /\ net' = net - money_to_give_back
    /\ dispensed' = dispensed + 1
    /\ planner' = IF amount_due' >= 0 THEN [planner EXCEPT !.at = "neutral"] ELSE planner
    /\ pose' = "none"
    /\ arm' = "none"
    /\ banknote' = Unbound
    /\ printed' = ""
    /\ UNCHANGED << exc, customer_last_pose, session_due, overpaid, tables, sensed, recogniser, action, banknote_value, animation, screen >>

\* __main__, lines 490-491: interact_with_customer has returned and is
\* called again.
Return ==
    /\ pc = "done"
    /\ pc' = "main"
    /\ printed' = ""
    /\ UNCHANGED << exc, ledger, tables, sensed, recogniser, action, locals, animation, screen, planner >>

\* ------------------------------------ make_eyes_animated_reading_banknote
\* The thread list with thread i moved on to its next func, or ended after
\* the last one.
Advance(i) ==
    IF threads[i].k = Len(funcs)
    THEN [j \in 1..(Len(threads) - 1) |-> IF j < i THEN threads[j] ELSE threads[j + 1]]
    ELSE [threads EXCEPT ![i].k = @ + 1, ![i].phase = "check"]

\* Mutant: the func is called whatever the flag reads.
AnimCheck_unconditional(i) ==
    /\ threads[i].phase = "check"
    /\ threads' = [threads EXCEPT ![i].phase = "show"]
    /\ UNCHANGED << pc, exc, printed, ledger, tables, sensed, recogniser, action, locals, banknote_recognition_task_completed, screen, planner >>

\* Line 364: the flag is read; the func is called only when it reads False.
AnimCheck(i) ==
    /\ threads[i].phase = "check"
    /\ threads' = IF banknote_recognition_task_completed = FALSE
                  THEN [threads EXCEPT ![i].phase = "show"]
                  ELSE Advance(i)
    /\ UNCHANGED << pc, exc, printed, ledger, tables, sensed, recogniser, action, locals, banknote_recognition_task_completed, screen, planner >>

\* Line 365: func() publishes its image (and sleeps).
AnimShow(i) ==
    /\ threads[i].phase = "show"
    /\ screen' = funcs[threads[i].k]
    /\ threads' = Advance(i)
    /\ UNCHANGED << pc, exc, printed, ledger, tables, sensed, recogniser, action, locals, banknote_recognition_task_completed, planner >>

Animate == \E i \in DOMAIN threads : AnimCheck(i) \/ AnimShow(i)

\* ------------------------------------------------------------ the program
\* The steps of the main thread.
Main ==
    \/ Enter
    \/ WhileTest
    \/ Sense
    \/ TakeMove
    \/ StartAnimation
    \/ RecogBegin
    \/ RecogReturn
    \/ TakeBranch
    \/ TakeUpdate
    \/ TakeEnd
    \/ GiveUnpack
    \/ PickBanknote
    \/ PickMove
    \/ GiveMove
    \/ GiveUpdate
    \/ Return

Next == Main \/ Animate

Spec == Init /\ [][Next]_vars

\* The main thread is never starved: whenever it can take a step it
\* eventually takes one.
FairSpec == Spec /\ WF_vars(Main)

\* ------------------------------------------------------- planner faults
\* A blocking call of the planner inside take_money_from_customer or
\* give_money_to_customer raises a planner fault. No try statement encloses
\* these calls (the only two, lines 329 and 460, catch rospy.ServiceException
\* around the service calls), so the fault leaves interact_with_customer and
\* the while True of __main__. What the step has done before the call stays
\* done: line 310 comes after the ledger and the handoff are written (308,
\* 309), line 316 after the eyes are shown (315), line 406 after active_hand
\* is set (405), line 453 after the unit is added (449).
PlannerFault ==
    /\ pc' = "crashed"
    /\ exc' = "PlannerFault"
    /\ printed' = ""
    /\ \/ /\ pc \in {"take_move", "give_move"}
          /\ UNCHANGED << ledger, screen, planner >>
       \/ /\ pc = "take_update"
          /\ banknote_value.kind = "int"
          /\ amount_due' = amount_due - banknote_value.val
          /\ net' = net + banknote_value.val
          /\ customer_last_pose' = Handoff(pose, arm)
          /\ overpaid' = IF banknote_value.val > amount_due THEN banknote_value.val - amount_due ELSE 0
          /\ dispensed' = 0
          /\ UNCHANGED << session_due, screen, planner >>
       \/ /\ pc = "take_end"
          /\ screen' = "normal_eyes.png"
          /\ UNCHANGED << ledger, planner >>
       \/ /\ pc = "pick"
          /\ planner' = [planner EXCEPT !.active_hand = arm]
          /\ UNCHANGED << ledger, screen >>
       \/ /\ pc = "pick_move"
          /\ banknote.kind = "banknote"
          /\ UNCHANGED << ledger, screen, planner >>
       \/ /\ pc = "give_update"
          /\ amount_due + money_to_give_back >= 0
          /\ amount_due' = amount_due + money_to_give_back
          /\ net' = net - money_to_give_back
          /\ dispensed' = dispensed + 1
          /\ UNCHANGED << customer_last_pose, session_due, overpaid, screen, planner >>
    /\ UNCHANGED << tables, sensed, recogniser, action, locals, animation >>

FaultNext == Next \/ PlannerFault

\* The program with a planner whose calls can raise.
FaultSpec == Init /\ [][FaultNext]_vars

\* ------------------------------------------------ the choice of the action
\* The first sensing iteration of a session, at line 247: the service has
\* answered with two poses; the clock reading and the planner's answers are
\* the ones the iteration will get.
SelectInit ==
    /\ pc = "sensed"
    /\ exc = "none"
    /\ printed = ""
    /\ amount_due \in 1..MaxDue
    /\ customer_last_pose = NoHandoff
    /\ banknotes_table_left = BanknotesOnTable(MaxRemaining)
    /\ banknotes_table_right = BanknotesOnTable(MaxRemaining)
    /\ banknote_recognition_task_completed = FALSE
    /\ now \in 0..MaxTime
    /\ left_pose \in Poses("left", now)
    /\ right_pose \in Poses("right", now)
    /\ reach \in Answers
    /\ outdated = NotCalled
    /\ action = NoAction
    /\ pose = "none"
    /\ arm = "none"
    /\ banknote_value = Unbound
    /\ banknote = Unbound
    /\ threads = << >>
    /\ screen = "normal_eyes.png"
    /\ planner = [active_hand |-> "right", gripper |-> "closed", at |-> "neutral", goal |-> "none", limb |-> "none"]
    /\ returned = [s \in Sides |-> {}]
    /\ session_due = amount_due
    /\ net = 0
    /\ overpaid = 0
    /\ dispensed = 0
    /\ markers = << >>
    /\ poll = 1
    /\ found = NotRecognised
    /\ detected = Unbound

\* Lines 247-263 on the poses sensed.
Select ==
    /\ pc = "sensed"
    /\ Perform(SelectAction(left_pose, right_pose, now, reach))

SelectNext == Select

SelectSpec == SelectInit /\ [][SelectNext]_vars

\* ------------------------------------------------ pose_is_outdated alone
\* Line 248 of a sensing iteration: the service has answered with two poses
\* and the clock reads now.
OutdatedInit ==
    /\ pc = "line_248"
    /\ exc = "none"
    /\ printed = ""
    /\ amount_due = MaxDue
    /\ customer_last_pose = NoHandoff
    /\ banknotes_table_left = BanknotesOnTable(MaxRemaining)
    /\ banknotes_table_right = BanknotesOnTable(MaxRemaining)
    /\ banknote_recognition_task_completed = FALSE
    /\ now \in 0..MaxTime
    /\ left_pose \in Poses("left", now)
    /\ right_pose \in Poses("right", now)
    /\ reach = NoAnswers
    /\ outdated = NotCalled
    /\ action = NoAction
    /\ pose = "none"
    /\ arm = "none"
    /\ banknote_value = Unbound
    /\ banknote = Unbound
    /\ threads = << >>
    /\ screen = "normal_eyes.png"
    /\ planner = [active_hand |-> "right", gripper |-> "closed", at |-> "neutral", goal |-> "none", limb |-> "none"]
    /\ returned = [s \in Sides |-> {}]
    /\ session_due = amount_due
    /\ net = 0
    /\ overpaid = 0
    /\ dispensed = 0
    /\ markers = << >>
    /\ poll = 1
    /\ found = NotRecognised
    /\ detected = Unbound

\* A call of pose_is_outdated on the pose of one hand.
CallOutdated(hand) ==
    /\ pc = "line_248"
    /\ outdated' = [hand |-> hand,
                    result |-> pose_is_outdated(IF hand = "left" THEN left_pose ELSE right_pose, now)]
    /\ UNCHANGED << pc, exc, printed, ledger, tables, left_pose, right_pose, now, reach, recogniser, action, locals, animation, screen, planner >>

OutdatedNext == \E hand \in Sides : CallOutdated(hand)

OutdatedSpec == OutdatedInit /\ [][OutdatedNext]_vars

\* ------------------------------------------- BanknoteRecogniser.detect
\* What one poll can observe: each of the two lookupTransform calls returns
\* or raises one of the tf exceptions the loop catches.
Observations == [ar_marker_5 : BOOLEAN, ar_marker_1 : BOOLEAN]

\* The sequences of n observations.
RECURSIVE PollsOfLength(_)
PollsOfLength(n) ==
    IF n = 0 THEN { << >> }
    ELSE { Append(w, o) : w \in PollsOfLength(n - 1), o \in Observations }

\* A call of detect, lines 25-27: found = -1, and the window of 5 s holds
\* the polls for which line 29 finds time.time() < timeout_start + timeout.
DetectInit ==
    /\ pc = "detect"
    /\ exc = "none"
    /\ printed = ""
    /\ amount_due = MaxDue
    /\ customer_last_pose = NoHandoff
    /\ banknotes_table_left = BanknotesOnTable(MaxRemaining)
    /\ banknotes_table_right = BanknotesOnTable(MaxRemaining)
    /\ banknote_recognition_task_completed = FALSE
    /\ left_pose = NoPose
    /\ right_pose = NoPose
    /\ now = 0
    /\ reach = NoAnswers
    /\ outdated = NotCalled
    /\ action = NoAction
    /\ pose = "none"
    /\ arm = "none"
    /\ banknote_value = Unbound
    /\ banknote = Unbound
    /\ threads = << >>
    /\ screen = "normal_eyes.png"
    /\ planner = [active_hand |-> "right", gripper |-> "closed", at |-> "camera", goal |-> "none", limb |-> "none"]
    /\ returned = [s \in Sides |-> {}]
    /\ session_due = amount_due
    /\ net = 0
    /\ overpaid = 0
    /\ dispensed = 0
    /\ \E n \in 0..MaxPolls : markers \in PollsOfLength(n)
    /\ poll = 1
    /\ found = NotRecognised
    /\ detected = Unbound

\* Mutant: marker 1 is noted in found like marker 5, and the loop goes on.
DetectPoll_keeps_polling ==
    /\ pc = "detect"
    /\ poll <= Len(markers)
    /\ found' = IF markers[poll].ar_marker_1 THEN 1
                ELSE IF markers[poll].ar_marker_5 THEN 5 ELSE found
    /\ poll' = poll + 1
    /\ UNCHANGED << pc, detected >>
    /\ UNCHANGED << exc, printed, ledger, tables, left_pose, right_pose, now, reach, outdated, markers, action, locals, animation, screen, planner >>

\* Lines 29-48, one pass of the loop inside the window: a successful lookup
\* of ar_marker_5 sets found = 5; a successful lookup of ar_marker_1 returns
\* 1 at once; otherwise the loop sleeps and polls again.
DetectPoll ==
    /\ pc = "detect"
    /\ poll <= Len(markers)
    /\ found' = IF markers[poll].ar_marker_5 THEN 5 ELSE found
    /\ IF markers[poll].ar_marker_1
       THEN pc' = "detected" /\ detected' = PyInt(1) /\ poll' = poll
       ELSE poll' = poll + 1 /\ UNCHANGED << pc, detected >>
    /\ UNCHANGED << exc, printed, ledger, tables, left_pose, right_pose, now, reach, outdated, markers, action, locals, animation, screen, planner >>

\* Lines 29 and 50: the window is over; RecogniseBanknoteResponse(found).
DetectTimeout ==
    /\ pc = "detect"
    /\ poll > Len(markers)
    /\ pc' = "detected"
    /\ detected' = PyInt(found)
    /\ UNCHANGED << exc, printed, ledger, tables, left_pose, right_pose, now, reach, outdated, markers, poll, found, action, locals, animation, screen, planner >>

DetectNext == DetectPoll \/ DetectTimeout

DetectSpec == DetectInit /\ [][DetectNext]_vars

\* ---------------------------------------------------- the inventory alone
\* Both sides as BanknotesOnTable.__init__ builds them, for every number of
\* remaining banknotes typed in.
InvInit ==
    /\ pc = "inventory"
    /\ exc = "none"
    /\ printed = ""
    /\ amount_due = 0
    /\ customer_last_pose = NoHandoff
    /\ \E n \in 0..MaxRemaining : banknotes_table_left = BanknotesOnTable(n)
    /\ \E n \in 0..MaxRemaining : banknotes_table_right = BanknotesOnTable(n)
    /\ banknote_recognition_task_completed = FALSE
    /\ left_pose = NoPose
    /\ right_pose = NoPose
    /\ now = 0
    /\ reach = NoAnswers
    /\ outdated = NotCalled
    /\ action = NoAction
    /\ pose = "none"
    /\ arm = "none"
    /\ banknote_value = Unbound
    /\ banknote = Unbound
    /\ threads = << >>
    /\ screen = "none"
    /\ planner = [active_hand |-> "right", gripper |-> "closed", at |-> "neutral", goal |-> "none", limb |-> "none"]
    /\ returned = [s \in Sides |-> {}]
    /\ session_due = 0
    /\ net = 0
    /\ overpaid = 0
    /\ dispensed = 0
    /\ markers = << >>
    /\ poll = 1
    /\ found = NotRecognised
    /\ detected = Unbound

\* A call of get_next_available_banknote on one side.
InvTake(side) ==
    /\ pc = "inventory"
    /\ TakeFrom(side)
    /\ action' = [kind |-> "take", pose |-> "none", arm |-> side]
    /\ UNCHANGED << pc, exc, printed, ledger, sensed, recogniser, pose, arm, banknote_value, animation, screen, planner >>

\* A call of reset_availability_for_all_banknotes on one side.
InvReset(side) ==
    /\ pc = "inventory"
    /\ IF side = "left"
       THEN /\ banknotes_table_left' = reset_availability_for_all_banknotes(banknotes_table_left)
            /\ UNCHANGED banknotes_table_right
       ELSE /\ banknotes_table_right' = reset_availability_for_all_banknotes(banknotes_table_right)
            /\ UNCHANGED banknotes_table_left
    /\ returned' = [returned EXCEPT ![side] = {}]
    /\ action' = [kind |-> "reset", pose |-> "none", arm |-> side]
    /\ UNCHANGED << pc, exc, printed, ledger, sensed, recogniser, locals, animation, screen, planner >>

InvNext == \E side \in Sides : InvTake(side) \/ InvReset(side)

InvSpec == InvInit /\ [][InvNext]_vars

\* ================================================================ claims
GivePcs == {"give", "pick", "pick_move", "give_move", "give_update"}

\* C1: Ledger convergence. amount_due is always the session's initial
\* amount less the net of the values collected and the units dispensed. Once
\* that net equals the initial amount the main thread can always step, its
\* steps lead from the end of the collect to the loop test and from the loop
\* test out of the loop, and the loop is left only with amount_due = 0.
LedgerConvergence ==
    /\ []((pc \in {"loop", "take_end"} /\ net = session_due) => ENABLED Main)
    /\ [][ /\ amount_due' = session_due' - net'
           /\ (pc' = "done") => (amount_due' = 0)
           /\ (net' = session_due' /\ pc' # pc) => (pc' \in {"loop", "take_end", "done", "main"})
           /\ (pc = "take_end" /\ net = session_due /\ pc' # pc) => (pc' = "loop")
           /\ (pc = "loop" /\ net = session_due /\ pc' # pc) => (pc' = "done") ]_vars

\* C1 witness: a session entered with a non-zero amount has ended after a
\* collect and a dispense.
LedgerConvergenceWitness ==
    /\ pc = "done"
    /\ session_due # 0
    /\ net = session_due
    /\ customer_last_pose.kind = "tuple"
    /\ \E side \in Sides : returned[side] # {}

\* C2: Dispense dominance. The loop test with amount_due < 0 calls
\* give_money_to_customer, and an iteration that dispenses goes through the
\* steps of give_money_to_customer only, back to the loop test (or ends in
\* its exception): it never senses, checks reachability or collects.
DispenseDominance ==
    [][ /\ (pc = "loop" /\ amount_due < 0 /\ pc' # pc)
              => (pc' = "give" /\ action'.kind = "Dispense")
        /\ (pc \in GivePcs /\ pc' # pc)
              => (action.kind = "Dispense" /\ pc' \in GivePcs \cup {"loop", "crashed"}) ]_vars

\* C2 witness: a dispense iteration, entered with a negative balance, has
\* delivered and is about to credit the unit.
DispenseDominanceWitness ==
    /\ pc = "give_update"
    /\ amount_due < 0
    /\ action.kind = "Dispense"
    /\ planner.at = "customer"

\* Both sensed poses are older than 3 s at the clock reading of the check.
BothStale ==
    /\ now - left_pose.created > 3
    /\ now - right_pose.created > 3

\* The customer's left hand can be collected from: its pose is not empty and
\* the planner finds it reachable by the right arm.
LeftCollectable == ~left_pose.empty /\ reach["left"]["right"]

\* The same for the customer's right hand and the left arm.
RightCollectable == ~right_pose.empty /\ reach["right"]["left"]

\* C3 (under SelectSpec): Action selection with cross-mapping. With
\* amount_due > 0, whenever the selection runs (the poses are not both
\* stale) it takes the left-hand pose with the right arm if that pose is
\* not empty and reachable by the right arm, otherwise the right-hand pose
\* with the left arm if that one is not empty and reachable by the left arm,
\* otherwise it waits; take_money_from_customer gets the pose and arm chosen.
CrossMapping ==
    [][ (pc = "sensed" /\ amount_due > 0 /\ ~BothStale /\ pc' # pc) =>
          IF LeftCollectable
          THEN /\ action' = [kind |-> "CollectWith", pose |-> "left", arm |-> "right"]
               /\ pc' = "take_move" /\ pose' = "left" /\ arm' = "right"
          ELSE IF RightCollectable
          THEN /\ action' = [kind |-> "CollectWith", pose |-> "right", arm |-> "left"]
               /\ pc' = "take_move" /\ pose' = "right" /\ arm' = "left"
          ELSE /\ action'.kind = "Wait"
               /\ pc' = "loop" /\ pose' = "none" /\ arm' = "none" ]_vars

\* C3 witness: both hands could be collected from, and the left-hand pose
\* was taken with the right arm.
CrossMappingWitness ==
    /\ pc = "take_move"
    /\ LeftCollectable
    /\ RightCollectable
    /\ pose = "left"
    /\ arm = "right"

\* The collect's recognition returned v.
Recognised(v) == banknote_value = v \/ banknote_value' = v

\* C4: Ambiguous recognition. Once a collect's recognition has returned -1,
\* no step of that collect changes amount_due, the cached handoff or either
\* inventory; the image shown for the outcome is the failure image; and the
\* collect returns to the loop test with amount_due still positive, so that
\* the loop senses again.
AmbiguousRecognitionNoEffect ==
    [][ Recognised(PyInt(NotRecognised)) =>
          /\ UNCHANGED << amount_due, customer_last_pose, banknotes_table_left, banknotes_table_right >>
          /\ pc' # "crashed"
          /\ (pc = "take_branch" /\ pc' # pc)
                => (screen' = "unable_to_recognise.png" /\ pc' = "take_end")
          /\ (pc = "take_end" /\ pc' # pc)
                => (pc' = "loop" /\ amount_due' > 0) ]_vars

\* C4 witness: the recognition returned -1 and the failure image is on the
\* screen.
AmbiguousRecognitionWitness ==
    /\ pc = "take_end"
    /\ banknote_value = PyInt(NotRecognised)
    /\ screen = "unable_to_recognise.png"

\* C5 (under SelectSpec): Stale-both skip. When both sensed poses are stale
\* the iteration continues at the loop test without choosing a pose or arm,
\* without moving an arm or starting a collect, and without changing the
\* ledger, the inventories or the cached handoff.
StaleBothSkip ==
    [][ (pc = "sensed" /\ BothStale /\ pc' # pc) =>
          /\ pc' = "loop"
          /\ action'.kind = "Skip"
          /\ UNCHANGED << ledger, tables, locals, animation, planner, screen >> ]_vars

\* C5 witness: both poses were stale although the left hand could have been
\* collected from, and the iteration was skipped.
StaleBothSkipWitness ==
    /\ pc = "loop"
    /\ action.kind = "Skip"
    /\ BothStale
    /\ LeftCollectable

\* The banknotes of one side.
Table(side) == IF side = "left" THEN banknotes_table_left ELSE banknotes_table_right

\* The side's banknotes after a step.
TableAfter(side) == IF side = "left" THEN banknotes_table_left' ELSE banknotes_table_right'

\* C6 (under InvSpec): Inventory take contract. A call of
\* get_next_available_banknote returns the first banknote in list order
\* whose flag is set and clears that flag only; it returns None when no flag
\* is set; it never returns a banknote already returned since the side's
\* last reset; and once as many banknotes were returned as the side has, it
\* returns None until the reset.
InventoryTakeContract ==
    [][ (action'.kind = "take" /\ vars' # vars) =>
          LET side == action'.arm
              b == Table(side)
              avail == { i \in DOMAIN b : b[i].is_available }
          IN  /\ DOMAIN TableAfter(side) = DOMAIN b
              /\ IF avail = {}
                 THEN banknote'.kind = "None" /\ TableAfter(side) = b
                 ELSE /\ banknote'.kind = "banknote"
                      /\ banknote'.val \in avail
                      /\ \A i \in avail : banknote'.val <= i
                      /\ banknote'.val \notin returned[side]
                      /\ \A i \in DOMAIN b :
                            TableAfter(side)[i].is_available = (b[i].is_available /\ i # banknote'.val)
              /\ (Cardinality(returned[side]) = Len(b)) => (banknote'.kind = "None")
              /\ \A other \in Sides \ {side} : TableAfter(other) = Table(other) ]_vars

\* C6 witness: every banknote of a side of two was returned, and a further
\* call returned None.
InventoryTakeWitness ==
    /\ action.kind = "take"
    /\ banknote.kind = "None"
    /\ Cardinality(returned[action.arm]) = Len(Table(action.arm))
    /\ Len(Table(action.arm)) > 1

\* C7: Recognition service unavailability is treated like the sentinel.
\* Once a collect's recognition call has failed, no step of that collect
\* changes amount_due or the cached handoff; the image shown for the outcome
\* is the failure image; and the collect returns to the loop test.
RecognitionFailureLikeSentinel ==
    [][ Recognised(PyNone) =>
          /\ UNCHANGED << amount_due, customer_last_pose >>
          /\ pc' # "crashed"
          /\ (pc = "take_branch" /\ pc' # pc)
                => (screen' = "unable_to_recognise.png" /\ pc' = "take_end")
          /\ (pc = "take_end" /\ pc' # pc) => (pc' = "loop") ]_vars

\* C8: Pose service unavailability is a failed cycle. When the
\* get_user_pose call fails the iteration collects nothing, changes no
\* state and continues at the loop test.
PoseFailureIsFailedCycle ==
    [][ (pc = "sense" /\ printed' = "Service call failed: get_user_pose") =>
          /\ pc' = "loop"
          /\ exc' = "none"
          /\ UNCHANGED << ledger, tables, locals, planner >> ]_vars

\* C9: Inventory exhaustion skips the dispense step. When the pick of a
\* dispense found no banknote, the rest of that dispense moves no arm, opens
\* no gripper and leaves amount_due as it is.
ExhaustionSkipsDispense ==
    [][ (pc \in GivePcs /\ banknote.kind = "None") =>
          /\ planner' = planner
          /\ amount_due' = amount_due ]_vars

\* C10: Ledger mutation discipline. A step changes amount_due only as the
\* main thread's subtraction of the value a collect's recognition returned
\* (a value other than -1), or as the main thread's addition of 1 after the
\* dispense's arm has reached the customer and opened its gripper; no step
\* of an animation thread changes it.
LedgerMutationDiscipline ==
    [][ (amount_due' # amount_due) =>
          /\ threads' = threads
          /\ \/ /\ pc = "take_update"
                /\ banknote_value.kind = "int"
                /\ banknote_value.val # NotRecognised
                /\ amount_due' = amount_due - banknote_value.val
             \/ /\ pc = "give_update"
                /\ planner.at = "customer"
                /\ planner.gripper = "open"
                /\ amount_due' = amount_due + 1 ]_vars

\* C10 witness: in a session entered owing 3, a collect of 5 and a dispense
\* of 1 have both changed the ledger.
LedgerMutationWitness ==
    /\ pc = "loop"
    /\ session_due = 3
    /\ net = 4
    /\ amount_due = 0 - 1

\* Thread i of the list takes a step: it reads the flag or calls its func.
ThreadSteps(i) ==
    /\ pc' = pc
    /\ threads' # threads
    /\ \/ threads' = Advance(i)
       \/ threads' = [threads EXCEPT ![i].phase = "show"]

\* C11: Completion-flag protocol. The flag is False when the thread of a
\* recognition attempt is started; the thread of an attempt whose recognition
\* call has not returned never reads True; and the flag is True once the
\* recognition call has returned, with a value or with None.
FlagProtocol ==
    [][ /\ (pc = "start_anim" /\ pc' # pc)
              => (banknote_recognition_task_completed = FALSE)
        /\ \A i \in DOMAIN threads :
              (ThreadSteps(i) /\ threads[i].latest /\ threads[i].phase = "check"
                 /\ pc \in {"recog_begin", "recog_call"})
              => (banknote_recognition_task_completed = FALSE)
        /\ (pc = "recog_call" /\ pc' # pc)
              => (banknote_recognition_task_completed' = TRUE) ]_vars

\* C12: Animation lifetime is bounded by its recognition call. At most one
\* animation thread is alive in any state, and a thread calls a func only
\* while it is the thread of the latest recognition attempt.
AnimationBounded ==
    /\ [](Len(threads) <= 1)
    /\ [][ \A i \in DOMAIN threads :
              (ThreadSteps(i) /\ threads[i].phase = "show") => threads[i].latest ]_vars

\* C13 (under FaultSpec): Planner fault abandons only the current action.
\* The step in which a planner call of a collect or a dispense raises leaves
\* amount_due as it was and the main thread at the loop test.
PlannerFaultAbandonsAction ==
    [][ (exc' = "PlannerFault" /\ exc # "PlannerFault")
           => (pc' = "loop" /\ amount_due' = amount_due) ]_vars

\* C14: Per-session re-initialisation of the handoff context. When
\* interact_with_customer is entered the cached handoff is None, whatever an
\* earlier session cached.
HandoffReinitialised ==
    [][ (pc = "main" /\ pc' = "loop") => (customer_last_pose' = NoHandoff) ]_vars

\* The age, at the clock reading of the call, of the pose pose_is_outdated
\* was last given.
CheckedAge == now - (IF outdated.hand = "left" THEN left_pose ELSE right_pose).created

\* C15 (under OutdatedSpec): Staleness boundary. pose_is_outdated returns
\* True exactly when now - pose.created > 3: False at age 3 and below, True
\* at every greater age.
StalenessBoundary ==
    (outdated.hand # "none") =>
        /\ (outdated.result <=> (CheckedAge > 3))
        /\ (CheckedAge = 3) => ~outdated.result
        /\ (CheckedAge > 3) => outdated.result

\* C15 witness: a pose of age exactly 3 was found not outdated.
StalenessBoundaryWitness ==
    /\ outdated.hand = "left"
    /\ CheckedAge = 3
    /\ outdated.result = FALSE

\* C16: Overpayment cycle. A collect that recognises v > amount_due = a > 0
\* leaves amount_due = a - v. From then until the loop is left the main
\* thread can always step and is only at the loop test or inside
\* give_money_to_customer (no sensing, no collect, no exception); each
\* completed dispense adds exactly 1 and nothing else changes amount_due,
\* which is never positive; and the loop is left with amount_due = 0 after
\* exactly v - a dispenses.
OverpaymentCycle ==
    /\ []((overpaid > 0) => ENABLED Main)
    /\ [][ /\ (pc = "take_update" /\ pc' = "take_end" /\ banknote_value.val > amount_due)
                 => /\ amount_due > 0
                    /\ amount_due' = amount_due - banknote_value.val
                    /\ overpaid' = banknote_value.val - amount_due
           /\ (overpaid > 0) =>
                 /\ pc' \in {"take_end", "loop", "done"} \cup GivePcs
                 /\ amount_due = dispensed - overpaid
                 /\ amount_due <= 0
                 /\ amount_due' <= 0
                 /\ (amount_due' # amount_due)
                       => (pc = "give_update" /\ amount_due' = amount_due + 1 /\ dispensed' = dispensed + 1)
                 /\ (pc = "give_update" /\ pc' # pc)
                       => (amount_due' = amount_due + 1 /\ pc' = "loop")
                 /\ (pc = "loop" /\ pc' # pc)
                       => IF amount_due < 0 THEN pc' = "give"
                          ELSE pc' = "done" /\ dispensed = overpaid /\ amount_due' = 0 ]_vars

\* C16 witness: owing 3, a collect of 5 left -2, and two dispenses later the
\* loop test finds 0.
OverpaymentCycleWitness ==
    /\ pc = "loop"
    /\ session_due = 3
    /\ overpaid = 2
    /\ dispensed = 2
    /\ amount_due = 0

\* C17: Cooperative cancellation of the animation. A thread is at one of
\* the five funcs, which it goes through in the order of the list. Before
\* each it reads the flag: reading False it goes on to call the func,
\* reading True it passes to the next func without calling this one. The
\* call shows that func's image, and after the last func the thread is gone.
\* So a thread calls at most five funcs, and while the flag is True it only
\* finishes a call it had begun.
CooperativeCancellation ==
    /\ [](\A i \in DOMAIN threads : threads[i].k \in 1..5)
    /\ [][ /\ \A i \in DOMAIN threads : ThreadSteps(i) =>
                 LET t == threads[i]
                     gone == Len(threads') = Len(threads) - 1
                     next == ~gone /\ threads'[i].k = t.k + 1 /\ threads'[i].phase = "check"
                 IN  IF t.phase = "check"
                     THEN /\ screen' = screen
                          /\ IF banknote_recognition_task_completed
                             THEN IF t.k = 5 THEN gone ELSE next
                             ELSE ~gone /\ threads'[i].k = t.k /\ threads'[i].phase = "show"
                     ELSE /\ screen' = funcs[t.k]
                          /\ IF t.k = 5 THEN gone ELSE next
           /\ (pc' = pc /\ screen' # screen)
                 => \E i \in DOMAIN threads : ThreadSteps(i) /\ threads[i].phase = "show" ]_vars

\* C17 witness: the recognition has returned; its thread had shown the first
\* image, then read True before the second func and passed to the third.
CooperativeCancellationWitness ==
    /\ pc = "take_branch"
    /\ banknote_recognition_task_completed = TRUE
    /\ Len(threads) = 1
    /\ threads[1].k = 3
    /\ threads[1].phase = "check"
    /\ screen = funcs[1]

\* C18: Dispense uses the cached handoff. With a handoff (pose, arm) cached,
\* a dispense picks with that arm the next available banknote of the arm's
\* own side, sends that arm to the cached pose and opens the gripper there;
\* no step of it changes the other side's inventory or the cached handoff.
DispenseUsesCachedHandoff ==
    [][ (pc \in GivePcs /\ pc' # pc /\ customer_last_pose.kind = "tuple") =>
          LET side == customer_last_pose.arm
          IN  /\ customer_last_pose' = customer_last_pose
              /\ \A other \in Sides \ {side} : TableAfter(other) = Table(other)
              /\ (pc # "pick") => (TableAfter(side) = Table(side))
              /\ (pc = "pick") =>
                    /\ planner'.active_hand = side
                    /\ IF \E i \in DOMAIN Table(side) : Table(side)[i].is_available
                       THEN /\ banknote'.kind = "banknote"
                            /\ Table(side)[banknote'.val].is_available
                            /\ ~TableAfter(side)[banknote'.val].is_available
                            /\ returned' = [returned EXCEPT ![side] = @ \cup {banknote'.val}]
                       ELSE banknote'.kind = "None" /\ TableAfter(side) = Table(side)
              /\ (pc = "pick_move" /\ banknote.kind = "banknote") =>
                    (planner'.goal = "banknote" /\ planner'.limb = side)
              /\ (pc = "give_move") =>
                    /\ planner'.goal = customer_last_pose.pose
                    /\ planner'.limb = side
                    /\ planner'.gripper = "open" ]_vars

\* C18 witness: the customer's left hand was collected from with the right
\* arm; the dispense has taken the first banknote of the right side, not
\* touched the left side, and delivered with the right arm to the left hand.
DispenseUsesCachedHandoffWitness ==
    /\ pc = "give_update"
    /\ customer_last_pose = Handoff("left", "right")
    /\ returned["right"] = {1}
    /\ returned["left"] = {}
    /\ planner.goal = "left"
    /\ planner.limb = "right"
    /\ planner.gripper = "open"

\* Every banknote of both sides is flagged available.
AllAvailable ==
    \A side \in Sides : \A i \in DOMAIN Table(side) : Table(side)[i].is_available

\* The same after a step.
AllAvailableAfter ==
    \A side \in Sides : \A i \in DOMAIN TableAfter(side) : TableAfter(side)[i].is_available

\* C19: Inventory shape and session reset. Built with N remaining
\* banknotes, a side has 1 + N banknotes, all available, the i-th placed
\* i - 1 steps from the calibrated pose; the length and the poses are the
\* same in every state. Entering interact_with_customer leaves every
\* banknote of both sides available, and nothing but that entry and the pick
\* of a dispense changes an inventory.
InventoryShapeAndReset ==
    /\ AllAvailable
    /\ [](\A side \in Sides :
             /\ Len(Table(side)) = 1 + MaxRemaining
             /\ \A i \in DOMAIN Table(side) : Table(side)[i].pose = i - 1)
    /\ [][ /\ (pc = "main" /\ pc' = "loop") => AllAvailableAfter
           /\ (\E side \in Sides : TableAfter(side) # Table(side))
                 => (pc \in {"main", "pick"} /\ pc' # pc) ]_vars

\* C19 witness: a second session is entered after the left arm has picked a
\* banknote in the first, and every banknote is available again.
InventoryShapeAndResetWitness ==
    /\ pc = "loop"
    /\ action = NoAction
    /\ session_due = 0
    /\ planner.active_hand = "left"
    /\ planner.goal = "right"
    /\ AllAvailable

\* C20: Dispense always has a handoff context. Whenever
\* give_money_to_customer is called, also in a session entered with a
\* negative amount_due, customer_last_pose holds the pair a collect cached.
DispenseHasHandoff ==
    (pc = "give") => (customer_last_pose.kind = "tuple")

\* C21 (under SelectSpec): No action on a stale pose. The pose an iteration
\* hands to take_money_from_customer is at most 3 s old at the clock
\* reading of the iteration's staleness check, also when the other hand's
\* pose is stale.
NoCollectOnStalePose ==
    [][ (pc = "sensed" /\ pc' = "take_move") =>
          (now - (IF pose' = "left" THEN left_pose ELSE right_pose).created <= 3) ]_vars

\* The positions of the main thread inside a collect before its ledger
\* update, from the sensing that leads to it.
CollectPcs == {"sense", "take_move", "start_anim", "recog_begin", "recog_call", "take_branch", "take_update"}

\* C22: Bounded overpayment. In a session entered with amount_due > 0, the
\* main thread is sensing or collecting only while amount_due > 0 and inside
\* give_money_to_customer only while amount_due < 0; amount_due is never
\* below -4 and never above the amount the session was entered with.
BoundedOverpayment ==
    (session_due > 0) =>
        /\ amount_due >= 0 - 4
        /\ amount_due <= session_due
        /\ (pc \in CollectPcs) => (amount_due > 0)
        /\ (pc \in GivePcs) => (amount_due < 0)

\* C22 witness: owing 1, a banknote of 5 was collected and the first
\* dispense is under way.
BoundedOverpaymentWitness ==
    /\ session_due > 0
    /\ amount_due = 0 - 4
    /\ pc = "give_move"

\* The polls of the window in which the lookup of ar_marker_1 succeeds.
PollsSeeingOne == { i \in DOMAIN markers : markers[i].ar_marker_1 }

\* The polls of the window in which the lookup of ar_marker_5 succeeds.
PollsSeeingFive == { i \in DOMAIN markers : markers[i].ar_marker_5 }

\* C23 (under DetectSpec): Recogniser result. detect returns 1, 5 or -1. It
\* returns 1 exactly when marker 1 is seen in some poll of the window, and
\* then at the first such poll, whatever was seen of marker 5; it returns 5
\* exactly when marker 5 is seen in some poll and marker 1 in none, and then
\* at the end of the window; it returns -1 exactly when neither is seen.
RecogniserResult ==
    (pc = "detected") =>
        /\ detected.kind = "int"
        /\ detected.val \in {1, 5, 0 - 1}
        /\ (detected.val = 1) <=> (PollsSeeingOne # {})
        /\ (detected.val = 1) =>
              (poll \in PollsSeeingOne /\ \A i \in PollsSeeingOne : poll <= i)
        /\ (detected.val = 5) <=> (PollsSeeingFive # {} /\ PollsSeeingOne = {})
        /\ (detected.val # 1) => (poll = Len(markers) + 1)
        /\ (detected.val = 0 - 1) <=> (PollsSeeingFive = {} /\ PollsSeeingOne = {})

\* C23 witness: marker 5 was seen in the first poll and marker 1 in the
\* second of three; detect returned 1 at the second.
RecogniserResultWitness ==
    /\ pc = "detected"
    /\ Len(markers) = 3
    /\ markers[1] = [ar_marker_5 |-> TRUE, ar_marker_1 |-> FALSE]
    /\ markers[2].ar_marker_1
    /\ poll = 2
    /\ found = 5
    /\ detected = PyInt(1)

====
